---- MODULE Spec2Model ----
(***************************************************************************)
(* State-machine model of sandbox2's stack-trace collection                *)
(* (GetStackTrace, StackTracePeer::LaunchLibunwindSandbox,                 *)
(* StackTracePeer::GetPolicy, CompactStackTrace) and of                    *)
(* sapi::v::Pointable.                                                     *)
(***************************************************************************)
EXTENDS Integers, Sequences, FiniteSets, TLC

(***************************************************************************)
(* Bounds of the model.                                                    *)
(***************************************************************************)
\* Calls of GetStackTrace the model holds state for.
NumCalls == 2
\* Process ids range over 1..MaxPid.
MaxPid == 3
\* Scratch directory names mkdtemp can produce.
NumDirs == 2
\* Longest input of CompactStackTrace.
MaxLen == 4

Calls == 1..NumCalls
Pids == 1..MaxPid

(***************************************************************************)
(* Pointers: nullptr is the empty sequence, a pointer to x is <<x>>.       *)
(***************************************************************************)
NullPtr == <<>>
PtrTo(x) == <<x>>
Deref(p) == p[1]

\* The Regs a caller can pass: nullptr, or Regs of a process.
RegsValues == {NullPtr} \cup {PtrTo([pid |-> p]) : p \in Pids}

(***************************************************************************)
(* Paths are sequences of components; "" is the empty sequence.            *)
(***************************************************************************)
NoPath == <<>>
JoinPath(a, b) == a \o <<b>>
IsUnder(f, d) == Len(f) > Len(d) /\ SubSeq(f, 1, Len(d)) = d

\* mkdtemp("/tmp/.sandbox2_unwind_XXXXXX") fills in the XXXXXX.
DirNames == { <<"tmp", ".sandbox2_unwind_" \o ToString(i)>> : i \in 1..NumDirs }
ProcPath(pid, name) == JoinPath(JoinPath(<<"proc">>, ToString(pid)), name)

\* Paths /proc/<pid>/exe can resolve to.
AppPaths == {<<"bin", "app">>, <<"bin", "app (deleted)">>}
\* Mounts: what Mounts::ResolvePath answers for each visible path
\* (value_or("") of an absent answer is NoPath).
MountViews ==
    { [p \in AppPaths |-> IF p = <<"bin", "app">> THEN <<"host", "bin", "app">>
                                                 ELSE NoPath],
      [p \in AppPaths |-> NoPath] }

\* absl::StripSuffix(app_path, " (deleted)")
StripSuffixDeleted(p) ==
    IF p = <<"bin", "app (deleted)">> THEN <<"bin", "app">> ELSE p

(***************************************************************************)
(* Values of the collaborators' types.                                     *)
(***************************************************************************)
\* sandbox2::Result::StatusEnum
FinalStatuses == {"OK", "VIOLATION", "SIGNALED", "TIMEOUT", "EXTERNAL_KILL"}
NoStatus == "UNSET"

\* Stack traces a run of the unwinder can produce.
Traces == {<<>>, <<"main">>, <<"f", "f", "main">>}
\* What the sandboxee can write to the comms channel: an UnwindResult, or
\* bytes that do not parse as one and may leave some frames in the message.
Replies == {[ok |-> TRUE, stacktrace |-> t] : t \in Traces}
               \cup {[ok |-> FALSE, stacktrace |-> t] : t \in {<<>>, <<"main">>}}

\* A 64-bit syscall argument, as its two 32-bit words.
Words == 0..MaxPid
Arg64s == [hi : {0, 1}, lo : Words]

VARIABLES
    \* the build and the process environment
    IsArm64,                \* sapi::host_cpu::IsArm64()
    sanitizersIsAny,        \* sapi::sanitizers::IsAny()
    FLAGS_sandbox_disable_all_stack_traces,
    FLAGS_sandbox_libunwind_crash_handler,
    envCOVERAGE,            \* getenv("COVERAGE") != nullptr
    \* the filesystem
    dirs,                   \* scratch directories that exist
    files,                  \* files that exist in them
    \* GetStackTrace, per call
    pc,
    regs,
    mounts,
    strategy,               \* the branch GetStackTrace took
    ret,                    \* the returned vector, once pc is "done"
    unsafeCalled,           \* UnsafeGetStackTrace was run
    \* LaunchLibunwindSandbox, per call
    unwind_temp_directory,
    app_path,
    exe_path,
    policy,
    success,
    res,                    \* the UnwindResult of GetStackTrace
    launchRet,              \* the returned bool, once pc is "G_ret" or "done"
    sandbox_result,         \* the final status AwaitResult returned
    events,                 \* the calls the launcher made, in order, each with
                            \* whether it succeeded
    \* the nested sandbox, per call
    sbx,                    \* "none", "running", "terminated"
    final_status,
    killRequested,
    toSandboxee,            \* UnwindSetup messages sent and not yet read
    sandboxee,              \* "waiting", "unwinding", "replied"
    fromSandboxee,          \* messages the sandboxee sent and not yet read
    lastReadv,              \* the last process_vm_readv of the sandboxee
    \* CompactStackTrace
    cpc,
    stack_trace,            \* its input
    compact_trace,          \* its output
    recompact_trace,        \* the output of a second application
    \* sapi::v::Pointable
    ptr_none_,
    ptr_both_,
    ptr_before_,
    ptr_after_,
    created,                \* the sync types CreatePtr was called with, in order
    ptrRet,                 \* the Ptr* the last call returned
    ptrCalls                \* the calls made so far, in order, each with
                            \* what it returned

buildVars == <<IsArm64, sanitizersIsAny, FLAGS_sandbox_disable_all_stack_traces,
               FLAGS_sandbox_libunwind_crash_handler, envCOVERAGE>>
fsVars == <<dirs, files>>
callVars == <<pc, regs, mounts, strategy, ret, unsafeCalled>>
stageVars == <<unwind_temp_directory, app_path, exe_path, policy>>
shakeVars == <<success, res, launchRet, sandbox_result, events>>
sbxVars == <<sbx, final_status, killRequested, toSandboxee, sandboxee,
             fromSandboxee, lastReadv>>
compactVars == <<cpc, stack_trace, compact_trace, recompact_trace>>
ptrVars == <<ptr_none_, ptr_both_, ptr_before_, ptr_after_, created, ptrRet,
             ptrCalls>>
vars == <<buildVars, fsVars, callVars, stageVars, shakeVars, sbxVars, compactVars, ptrVars>>

(***************************************************************************)
(* StackTracePeer::GetPolicy                                               *)
(***************************************************************************)
ALLOW == "ALLOW"
\* The action of a sandbox2 policy for a syscall that no rule decides.
DefaultAction == "KILL"

\* bpf_helper.h: load the low 32 bits of syscall argument n.
ARG_32(n) == [op |-> "ARG_32", k |-> n, act |-> ""]
\* bpf_helper.h: if the accumulator equals v, leave with action a.
JEQ32(v, a) == [op |-> "JEQ32", k |-> v, act |-> a]

\* The rule GetPolicy attaches to __NR_process_vm_readv.
ProcessVmReadvRule(target_pid) ==
    << ARG_32(0), JEQ32(target_pid, ALLOW), JEQ32(1, ALLOW) >>

\* The syscalls GetPolicy allows unconditionally, by the groups it adds
\* them in.
BasicSyscalls ==
    {"open", "openat", "read", "write", "close", "mmap", "exit", "exit_group",
     "rt_sigaction", "rt_sigprocmask"}
LibunwindSyscalls ==
    {"fstat", "lseek", "mincore", "mprotect", "munmap", "pipe2"}
SymbolizerSyscalls == {"brk", "clock_gettime"}
OtherSyscalls == {"dup", "fcntl", "getpid", "gettid", "madvise"}

\* Mutant: process_vm_readv allowed like the other syscalls.
AllowedSyscallsWithReadv ==
    BasicSyscalls \cup LibunwindSyscalls \cup SymbolizerSyscalls
        \cup OtherSyscalls \cup {"process_vm_readv"}

AllowedSyscalls ==
    BasicSyscalls \cup LibunwindSyscalls \cup SymbolizerSyscalls
        \cup OtherSyscalls

\* builder.TryBuild() answers build_ok; libs are the library folders that
\* access() finds.
GetPolicy(target_pid, maps_file, app, exe, mnt, libs, build_ok) ==
    IF ~build_ok
    THEN NullPtr
    ELSE PtrTo([ mounts |-> mnt,
                 syscalls |-> AllowedSyscalls,
                 gated |-> "process_vm_readv",
                 rule |-> ProcessVmReadvRule(target_pid),
                 files |-> { <<maps_file, ProcPath(target_pid, "maps")>>,
                             <<maps_file,
                               JoinPath(JoinPath(JoinPath(<<"proc">>,
                                   ToString(target_pid)), "task"),
                                   ToString(target_pid)) \o <<"maps">> >>,
                             <<exe, app>> },
                 directories |-> libs,
                 keep_capabilities |-> {"CAP_SYS_PTRACE"},
                 clone_flags |-> 0 ])

\* Running a rule's instructions on the arguments of a syscall: the action
\* of the first jump taken, "NEXT" when none is.
RECURSIVE RunRule(_, _, _, _)
RunRule(rule, i, acc, args) ==
    IF i > Len(rule)
    THEN "NEXT"
    ELSE IF rule[i].op = "ARG_32"
         THEN RunRule(rule, i + 1, args[rule[i].k + 1].lo, args)
         ELSE IF acc = rule[i].k
              THEN rule[i].act
              ELSE RunRule(rule, i + 1, acc, args)

\* What the policy decides for syscall nr with arguments args.
PolicyVerdict(pol, nr, args) ==
    IF nr \in pol.syscalls
    THEN ALLOW
    ELSE IF nr = pol.gated
         THEN LET v == RunRule(pol.rule, 1, 0, args)
              IN  IF v = "NEXT" THEN DefaultAction ELSE v
         ELSE DefaultAction

\* The library folders that can exist on the host.
LibraryFolderSets == { {<<"usr", "lib">>, <<"lib">>}, {<<"lib">>} }

(***************************************************************************)
(* The filesystem collaborator.                                            *)
(***************************************************************************)
\* file_util::fileops::DeleteRecursively(d): d and everything under it.
DeleteRecursively(fs, d) ==
    [dirs |-> fs.dirs \ {d}, files |-> {f \in fs.files : ~IsUnder(f, d)}]

\* Mutant: a return path on which the destructor does not run.
UnwindTempDirectoryCleanupSkipped(fs, capture) == fs

\* ~UnwindTempDirectoryCleanup()
UnwindTempDirectoryCleanup(fs, capture) == DeleteRecursively(fs, capture)

(***************************************************************************)
(* GetStackTrace                                                           *)
(***************************************************************************)
\* Mutant: the disable flag is checked before the architecture.
StrategyFlagBeforeArch(r) ==
    IF FLAGS_sandbox_disable_all_stack_traces THEN "disabled"
    ELSE IF IsArm64 THEN "unavailable"
    ELSE IF r = NullPtr THEN "noregs"
    ELSE IF FLAGS_sandbox_libunwind_crash_handler
            /\ (sanitizersIsAny \/ envCOVERAGE) THEN "unsafe"
    ELSE IF ~FLAGS_sandbox_libunwind_crash_handler THEN "unsafe"
    ELSE "nested"

\* Mutant: the COVERAGE environment variable is not looked at.
StrategyIgnoresCoverage(r) ==
    IF IsArm64 THEN "unavailable"
    ELSE IF FLAGS_sandbox_disable_all_stack_traces THEN "disabled"
    ELSE IF r = NullPtr THEN "noregs"
    ELSE IF FLAGS_sandbox_libunwind_crash_handler /\ sanitizersIsAny
         THEN "unsafe"
    ELSE IF ~FLAGS_sandbox_libunwind_crash_handler THEN "unsafe"
    ELSE "nested"

\* Mutant: the registers are checked before the disable flag.
StrategyRegsBeforeFlag(r) ==
    IF IsArm64 THEN "unavailable"
    ELSE IF r = NullPtr THEN "noregs"
    ELSE IF FLAGS_sandbox_disable_all_stack_traces THEN "disabled"
    ELSE IF FLAGS_sandbox_libunwind_crash_handler
            /\ (sanitizersIsAny \/ envCOVERAGE) THEN "unsafe"
    ELSE IF ~FLAGS_sandbox_libunwind_crash_handler THEN "unsafe"
    ELSE "nested"

\* Mutant: the registers are not checked when the sandboxed unwinder is off.
StrategyRegsCheckedLate(r) ==
    IF IsArm64 THEN "unavailable"
    ELSE IF FLAGS_sandbox_disable_all_stack_traces THEN "disabled"
    ELSE IF FLAGS_sandbox_libunwind_crash_handler
            /\ (sanitizersIsAny \/ envCOVERAGE) THEN "unsafe"
    ELSE IF ~FLAGS_sandbox_libunwind_crash_handler THEN "unsafe"
    ELSE IF r = NullPtr THEN "noregs"
    ELSE "nested"

\* The branch GetStackTrace takes for registers r.
Strategy(r) ==
    IF IsArm64 THEN "unavailable"
    ELSE IF FLAGS_sandbox_disable_all_stack_traces THEN "disabled"
    ELSE IF r = NullPtr THEN "noregs"
    ELSE IF FLAGS_sandbox_libunwind_crash_handler
            /\ (sanitizersIsAny \/ envCOVERAGE) THEN "unsafe"
    ELSE IF ~FLAGS_sandbox_libunwind_crash_handler THEN "unsafe"
    ELSE "nested"

\* The vector the early returns of GetStackTrace hold.
Placeholder(s) ==
    CASE s = "unavailable" -> <<"[Stack traces unavailable]">>
      [] s = "disabled"    -> <<"[Stacktraces disabled]">>
      [] s = "noregs"      -> <<"[ERROR (noregs)]">>

\* GetStackTrace(regs, mounts), up to the strategy it selects.
GetStackTrace(c) ==
    /\ pc[c] = "idle"
    /\ \E r \in RegsValues, m \in MountViews :
         LET s == Strategy(r) IN
         /\ regs' = [regs EXCEPT ![c] = r]
         /\ mounts' = [mounts EXCEPT ![c] = m]
         /\ strategy' = [strategy EXCEPT ![c] = s]
         /\ IF s \in {"unavailable", "disabled", "noregs"}
            THEN /\ ret' = [ret EXCEPT ![c] = Placeholder(s)]
                 /\ pc' = [pc EXCEPT ![c] = "done"]
            ELSE /\ ret' = ret
                 /\ pc' = [pc EXCEPT ![c] =
                             IF s = "unsafe" THEN "unsafe" ELSE "L_mkdtemp"]
    /\ UNCHANGED <<buildVars, fsVars, unsafeCalled, stageVars, shakeVars,
                   sbxVars, compactVars, ptrVars>>

\* return UnsafeGetStackTrace(regs->pid());
UnsafeGetStackTrace(c) ==
    /\ pc[c] = "unsafe"
    /\ \E t \in Traces : ret' = [ret EXCEPT ![c] = t]
    /\ unsafeCalled' = [unsafeCalled EXCEPT ![c] = TRUE]
    /\ pc' = [pc EXCEPT ![c] = "done"]
    /\ UNCHANGED <<buildVars, fsVars, regs, mounts, strategy, stageVars,
                   shakeVars, sbxVars, compactVars, ptrVars>>

\* Mutant: the frames received are returned whatever the launcher answers.
NestedResultIgnoresFailure(launched, r) == r.stacktrace

\* The vector GetStackTrace returns after LaunchLibunwindSandbox.
NestedResult(launched, r) == IF ~launched THEN <<>> ELSE r.stacktrace

\* if (!LaunchLibunwindSandbox(...)) return {}; return {res.stacktrace()...};
GetStackTraceReturn(c) ==
    /\ pc[c] = "G_ret"
    /\ ret' = [ret EXCEPT ![c] = NestedResult(launchRet[c], res[c])]
    /\ pc' = [pc EXCEPT ![c] = "done"]
    /\ UNCHANGED <<buildVars, fsVars, regs, mounts, strategy, unsafeCalled,
                   stageVars, shakeVars, sbxVars, compactVars, ptrVars>>

(***************************************************************************)
(* StackTracePeer::LaunchLibunwindSandbox                                  *)
(***************************************************************************)
Event(name, ok) == [op |-> name, ok |-> ok]
Log(c, name, ok) == events' = [events EXCEPT ![c] = Append(@, Event(name, ok))]

\* A return before `cleanup` is constructed.
ReturnNoCleanup(c, value) ==
    /\ launchRet' = [launchRet EXCEPT ![c] = value]
    /\ pc' = [pc EXCEPT ![c] = "G_ret"]
    /\ UNCHANGED fsVars

\* A return after `cleanup` is constructed: its destructor runs.
ReturnWithCleanup(c, value) ==
    /\ launchRet' = [launchRet EXCEPT ![c] = value]
    /\ pc' = [pc EXCEPT ![c] = "G_ret"]
    /\ LET fs == UnwindTempDirectoryCleanup([dirs |-> dirs, files |-> files],
                                            unwind_temp_directory[c])
       IN  dirs' = fs.dirs /\ files' = fs.files

\* Mutant: the result of a staging step is not checked.
StepNeverFails(ok) == FALSE

\* if (!step succeeded) return false;
StepFailed(ok) == ~ok

\* A limit: none (RLIM64_INFINITY, a zero duration), or a number of seconds.
Unlimited == <<>>
Seconds(n) == <<n>>

\* Mutant: the executor runs without a CPU or a wall-time limit.
ExecutorLimitsUnset ==
    [rlimit_as |-> Unlimited, rlimit_cpu |-> Unlimited,
     walltime_limit |-> Unlimited]

\* executor->limits()->set_rlimit_as(RLIM64_INFINITY).set_rlimit_cpu(10)
\*     .set_walltime_limit(absl::Seconds(5));
ExecutorLimits ==
    [rlimit_as |-> Unlimited, rlimit_cpu |-> Seconds(10),
     walltime_limit |-> Seconds(5)]

\* Mutant: a name is used whether or not a directory of that name exists.
MkdtempNamesNotUnique(existing) == DirNames

\* The names mkdtemp can create: those of no existing directory.
MkdtempNames(existing) == DirNames \ existing

\* char* unwind_temp_directory = mkdtemp(template); the executor and its
\* limits are set up before.
Mkdtemp(c) ==
    /\ pc[c] = "L_mkdtemp"
    /\ \E d \in MkdtempNames(dirs) \cup {NullPtr} :
         /\ unwind_temp_directory' = [unwind_temp_directory EXCEPT ![c] = d]
         /\ Log(c, "mkdtemp", d # NullPtr)
         /\ IF StepFailed(d # NullPtr)
            THEN ReturnNoCleanup(c, FALSE)
            ELSE /\ dirs' = dirs \cup {d}
                 /\ files' = files
                 /\ pc' = [pc EXCEPT ![c] = "L_maps"]
                 /\ launchRet' = launchRet
    /\ UNCHANGED <<buildVars, regs, mounts, strategy, ret, unsafeCalled,
                   app_path, exe_path, policy, success, res, sandbox_result,
                   sbxVars, compactVars, ptrVars>>

\* CopyFile("/proc/<pid>/maps", unwind_temp_maps_path, 0400)
CopyMaps(c) ==
    /\ pc[c] = "L_maps"
    /\ \E ok \in BOOLEAN :
         /\ Log(c, "CopyFile maps", ok)
         /\ IF StepFailed(ok)
            THEN ReturnWithCleanup(c, FALSE)
            ELSE /\ files' = files \cup
                                {JoinPath(unwind_temp_directory[c], "maps")}
                 /\ dirs' = dirs
                 /\ pc' = [pc EXCEPT ![c] = "L_readlink"]
                 /\ launchRet' = launchRet
    /\ UNCHANGED <<buildVars, regs, mounts, strategy, ret, unsafeCalled,
                   stageVars, success, res, sandbox_result, sbxVars,
                   compactVars, ptrVars>>

\* ReadLinkAbsolute("/proc/<pid>/exe", &app_path)
ReadLinkAbsolute(c) ==
    /\ pc[c] = "L_readlink"
    /\ \E ok \in BOOLEAN, p \in AppPaths :
         /\ Log(c, "ReadLinkAbsolute", ok)
         /\ IF StepFailed(ok)
            THEN /\ ReturnWithCleanup(c, FALSE)
                 /\ app_path' = app_path
            ELSE /\ app_path' = [app_path EXCEPT ![c] = p]
                 /\ pc' = [pc EXCEPT ![c] = "L_resolve"]
                 /\ UNCHANGED <<fsVars, launchRet>>
    /\ UNCHANGED <<buildVars, regs, mounts, strategy, ret, unsafeCalled,
                   unwind_temp_directory, exe_path, policy, success, res,
                   sandbox_result, sbxVars, compactVars, ptrVars>>

\* exe_path = mounts.ResolvePath(app_path).value_or(""); when it is empty,
\* /proc/<pid>/exe is copied to the scratch directory.
ResolveExe(c) ==
    /\ pc[c] = "L_resolve"
    /\ LET resolved == mounts[c][app_path[c]] IN
       IF resolved # NoPath
       THEN /\ exe_path' = [exe_path EXCEPT ![c] = resolved]
            /\ pc' = [pc EXCEPT ![c] = "L_policy"]
            /\ UNCHANGED <<fsVars, launchRet, app_path, events>>
       ELSE /\ app_path' = [app_path EXCEPT ![c] = StripSuffixDeleted(@)]
            /\ exe_path' = [exe_path EXCEPT ![c] =
                               JoinPath(unwind_temp_directory[c], "exe")]
            /\ \E ok \in BOOLEAN :
                 /\ Log(c, "CopyFile exe", ok)
                 /\ IF StepFailed(ok)
                    THEN ReturnWithCleanup(c, FALSE)
                    ELSE /\ files' = files \cup
                                    {JoinPath(unwind_temp_directory[c], "exe")}
                         /\ dirs' = dirs
                         /\ pc' = [pc EXCEPT ![c] = "L_policy"]
                         /\ launchRet' = launchRet
    /\ UNCHANGED <<buildVars, regs, mounts, strategy, ret, unsafeCalled,
                   unwind_temp_directory, policy, success, res, sandbox_result,
                   sbxVars, compactVars, ptrVars>>

\* if (!policy) return false;
PolicyMissing(p) == p = NullPtr

\* auto policy = StackTracePeer::GetPolicy(pid, maps, app_path, exe_path, mounts)
BuildPolicy(c) ==
    /\ pc[c] = "L_policy"
    /\ \E build_ok \in BOOLEAN, libs \in LibraryFolderSets :
         LET p == GetPolicy(Deref(regs[c]).pid,
                            JoinPath(unwind_temp_directory[c], "maps"),
                            app_path[c], exe_path[c], mounts[c], libs, build_ok)
         IN  /\ policy' = [policy EXCEPT ![c] = p]
             /\ Log(c, "GetPolicy", p # NullPtr)
             /\ IF PolicyMissing(p)
                THEN ReturnWithCleanup(c, FALSE)
                ELSE /\ pc' = [pc EXCEPT ![c] = "L_run"]
                     /\ UNCHANGED <<fsVars, launchRet>>
    /\ UNCHANGED <<buildVars, regs, mounts, strategy, ret, unsafeCalled,
                   unwind_temp_directory, app_path, exe_path, success, res,
                   sandbox_result, sbxVars, compactVars, ptrVars>>

\* Mutant: a failed handshake is tried again from the send.
AfterHandshakeRetriesSend(succ) == IF ~succ THEN "L_send" ELSE "L_await"

\* Mutant: no Kill after a failed handshake.
AfterHandshakeNoKill(succ) == "L_await"

\* Where the launcher goes once send and receive are over:
\* if (!success) { sandbox.Kill(); }
AfterHandshake(succ) == IF ~succ THEN "L_kill" ELSE "L_await"

\* Mutant: a failed send returns at once, without Kill and AwaitResult.
AfterSendReturnsEarly(succ) == IF succ THEN "L_recv" ELSE "G_ret"

\* Mutant: the receive is attempted whether or not the send succeeded.
AfterSendAlwaysReceives(succ) == "L_recv"

\* if (success && !comms->RecvProtoBuf(result)): no receive after a failed send.
AfterSend(succ) == IF succ THEN "L_recv" ELSE AfterHandshake(succ)

\* Mutant: the final status is not looked at.
LaunchResultIgnoresStatus(succ, status) == succ

\* return success && sandbox_result.final_status() == Result::OK;
LaunchResult(succ, status) == succ /\ status = "OK"

\* Sandbox2 sandbox(std::move(executor), std::move(policy)); sandbox.RunAsync();
RunAsync(c) ==
    /\ pc[c] = "L_run"
    /\ sbx' = [sbx EXCEPT ![c] = "running"]
    /\ Log(c, "RunAsync", TRUE)
    /\ pc' = [pc EXCEPT ![c] = "L_send"]
    /\ UNCHANGED <<buildVars, fsVars, regs, mounts, strategy, ret, unsafeCalled,
                   stageVars, success, res, launchRet, sandbox_result,
                   final_status, killRequested, toSandboxee, sandboxee,
                   fromSandboxee, lastReadv, compactVars, ptrVars>>

\* bool success = true; if (!comms->SendProtoBuf(msg)) success = false;
\* The send succeeds only while the peer is there to take it.
SendProtoBuf(c) ==
    /\ pc[c] = "L_send"
    /\ \E ok \in BOOLEAN :
         /\ ok => sbx[c] = "running"
         /\ success' = [success EXCEPT ![c] = ok]
         /\ toSandboxee' = [toSandboxee EXCEPT ![c] =
                IF ok THEN Append(@, [pid |-> Deref(regs[c]).pid]) ELSE @]
         /\ Log(c, "SendProtoBuf", ok)
         /\ pc' = [pc EXCEPT ![c] = AfterSend(ok)]
    /\ UNCHANGED <<buildVars, fsVars, regs, mounts, strategy, ret, unsafeCalled,
                   stageVars, res, launchRet, sandbox_result, sbx, final_status,
                   killRequested, sandboxee, fromSandboxee, lastReadv,
                   compactVars, ptrVars>>

\* if (success && !comms->RecvProtoBuf(result)) success = false;
\* The receive blocks until a message is there or the peer is gone.
RecvProtoBuf(c) ==
    /\ pc[c] = "L_recv"
    /\ \/ /\ fromSandboxee[c] # <<>>
          /\ LET m == Head(fromSandboxee[c]) IN
             /\ res' = [res EXCEPT ![c] = [stacktrace |-> m.stacktrace]]
             /\ success' = [success EXCEPT ![c] = m.ok]
             /\ Log(c, "RecvProtoBuf", m.ok)
             /\ pc' = [pc EXCEPT ![c] = AfterHandshake(m.ok)]
          /\ fromSandboxee' = [fromSandboxee EXCEPT ![c] = Tail(@)]
       \/ /\ fromSandboxee[c] = <<>>
          /\ sbx[c] = "terminated"
          /\ success' = [success EXCEPT ![c] = FALSE]
          /\ Log(c, "RecvProtoBuf", FALSE)
          /\ pc' = [pc EXCEPT ![c] = AfterHandshake(FALSE)]
          /\ UNCHANGED <<res, fromSandboxee>>
    /\ UNCHANGED <<buildVars, fsVars, regs, mounts, strategy, ret, unsafeCalled,
                   stageVars, launchRet, sandbox_result, sbx, final_status,
                   killRequested, toSandboxee, sandboxee, lastReadv,
                   compactVars, ptrVars>>

\* sandbox.Kill();
Kill(c) ==
    /\ pc[c] = "L_kill"
    /\ killRequested' = [killRequested EXCEPT ![c] = TRUE]
    /\ Log(c, "Kill", TRUE)
    /\ pc' = [pc EXCEPT ![c] = "L_await"]
    /\ UNCHANGED <<buildVars, fsVars, regs, mounts, strategy, ret, unsafeCalled,
                   stageVars, success, res, launchRet, sandbox_result, sbx,
                   final_status, toSandboxee, sandboxee, fromSandboxee,
                   lastReadv, compactVars, ptrVars>>

\* auto sandbox_result = sandbox.AwaitResult(); return success && ...;
\* AwaitResult blocks until the sandboxee has terminated.
AwaitResult(c) ==
    /\ pc[c] = "L_await"
    /\ sbx[c] = "terminated"
    /\ sandbox_result' = [sandbox_result EXCEPT ![c] = final_status[c]]
    /\ Log(c, "AwaitResult", TRUE)
    /\ ReturnWithCleanup(c, LaunchResult(success[c], final_status[c]))
    /\ UNCHANGED <<buildVars, regs, mounts, strategy, ret, unsafeCalled,
                   stageVars, success, res, sbxVars, compactVars, ptrVars>>

(***************************************************************************)
(* The nested sandbox: the sandboxee and the monitor that supervises it.   *)
(***************************************************************************)
\* The sandboxee reads the UnwindSetup.
SandboxeeRecvSetup(c) ==
    /\ sbx[c] = "running"
    /\ sandboxee[c] = "waiting"
    /\ toSandboxee[c] # <<>>
    /\ toSandboxee' = [toSandboxee EXCEPT ![c] = Tail(@)]
    /\ sandboxee' = [sandboxee EXCEPT ![c] = "unwinding"]
    /\ UNCHANGED <<buildVars, fsVars, callVars, stageVars, shakeVars, sbx,
                   final_status, killRequested, fromSandboxee, lastReadv,
                   compactVars, ptrVars>>

\* The sandboxee calls process_vm_readv; the policy decides, and a call it
\* does not allow ends the sandboxee with a violation.
SandboxeeReadv(c) ==
    /\ sbx[c] = "running"
    /\ sandboxee[c] # "replied"
    /\ \E a \in Arg64s :
         LET v == PolicyVerdict(Deref(policy[c]), "process_vm_readv", <<a>>) IN
         /\ lastReadv' = [lastReadv EXCEPT ![c] = <<[arg |-> a, verdict |-> v]>>]
         /\ IF v = ALLOW
            THEN UNCHANGED <<sbx, final_status>>
            ELSE /\ sbx' = [sbx EXCEPT ![c] = "terminated"]
                 /\ final_status' = [final_status EXCEPT ![c] = "VIOLATION"]
    /\ UNCHANGED <<buildVars, fsVars, callVars, stageVars, shakeVars,
                   killRequested, toSandboxee, sandboxee, fromSandboxee,
                   compactVars, ptrVars>>

\* The sandboxee writes its one message to the channel.
SandboxeeReply(c) ==
    /\ sbx[c] = "running"
    /\ sandboxee[c] # "replied"
    /\ \E m \in Replies :
         fromSandboxee' = [fromSandboxee EXCEPT ![c] = Append(@, m)]
    /\ sandboxee' = [sandboxee EXCEPT ![c] = "replied"]
    /\ UNCHANGED <<buildVars, fsVars, callVars, stageVars, shakeVars, sbx,
                   final_status, killRequested, toSandboxee, lastReadv,
                   compactVars, ptrVars>>

\* The sandboxee ends by itself: it exits, a signal ends it, or another
\* syscall violates the policy.
SandboxeeExit(c) ==
    /\ sbx[c] = "running"
    /\ sbx' = [sbx EXCEPT ![c] = "terminated"]
    /\ \E st \in FinalStatuses \ {"EXTERNAL_KILL", "TIMEOUT"} :
         final_status' = [final_status EXCEPT ![c] = st]
    /\ UNCHANGED <<buildVars, fsVars, callVars, stageVars, shakeVars,
                   killRequested, toSandboxee, sandboxee, fromSandboxee,
                   lastReadv, compactVars, ptrVars>>

\* The sandboxee runs under a time limit.
HasTimeLimit(limits) ==
    limits.rlimit_cpu # Unlimited \/ limits.walltime_limit # Unlimited

\* The monitor ends a sandboxee that has used up its CPU or wall time.
LimitFires(c) ==
    /\ sbx[c] = "running"
    /\ HasTimeLimit(ExecutorLimits)
    /\ sbx' = [sbx EXCEPT ![c] = "terminated"]
    /\ final_status' = [final_status EXCEPT ![c] = "TIMEOUT"]
    /\ UNCHANGED <<buildVars, fsVars, callVars, stageVars, shakeVars,
                   killRequested, toSandboxee, sandboxee, fromSandboxee,
                   lastReadv, compactVars, ptrVars>>

\* The monitor acts on Kill().
MonitorKill(c) ==
    /\ sbx[c] = "running"
    /\ killRequested[c]
    /\ sbx' = [sbx EXCEPT ![c] = "terminated"]
    /\ final_status' = [final_status EXCEPT ![c] = "EXTERNAL_KILL"]
    /\ UNCHANGED <<buildVars, fsVars, callVars, stageVars, shakeVars,
                   killRequested, toSandboxee, sandboxee, fromSandboxee,
                   lastReadv, compactVars, ptrVars>>

(***************************************************************************)
(* The specification of one call of GetStackTrace.                         *)
(***************************************************************************)
InitBuild ==
    /\ IsArm64 \in BOOLEAN
    /\ sanitizersIsAny \in BOOLEAN
    /\ FLAGS_sandbox_disable_all_stack_traces \in BOOLEAN
    /\ FLAGS_sandbox_libunwind_crash_handler \in BOOLEAN
    /\ envCOVERAGE \in BOOLEAN

InitCalls ==
    /\ dirs = {}
    /\ files = {}
    /\ pc = [c \in Calls |-> "idle"]
    /\ regs = [c \in Calls |-> NullPtr]
    /\ mounts = [c \in Calls |-> [p \in AppPaths |-> NoPath]]
    /\ strategy = [c \in Calls |-> "none"]
    /\ ret = [c \in Calls |-> <<>>]
    /\ unsafeCalled = [c \in Calls |-> FALSE]
    /\ unwind_temp_directory = [c \in Calls |-> NullPtr]
    /\ app_path = [c \in Calls |-> NoPath]
    /\ exe_path = [c \in Calls |-> NoPath]
    /\ policy = [c \in Calls |-> NullPtr]
    /\ success = [c \in Calls |-> TRUE]
    /\ res = [c \in Calls |-> [stacktrace |-> <<>>]]
    /\ launchRet = [c \in Calls |-> FALSE]
    /\ sandbox_result = [c \in Calls |-> NoStatus]
    /\ events = [c \in Calls |-> <<>>]
    /\ sbx = [c \in Calls |-> "none"]
    /\ final_status = [c \in Calls |-> NoStatus]
    /\ killRequested = [c \in Calls |-> FALSE]
    /\ toSandboxee = [c \in Calls |-> <<>>]
    /\ sandboxee = [c \in Calls |-> "waiting"]
    /\ fromSandboxee = [c \in Calls |-> <<>>]
    /\ lastReadv = [c \in Calls |-> <<>>]

InitCompactIdle ==
    /\ cpc = "idle"
    /\ stack_trace = <<>>
    /\ compact_trace = <<>>
    /\ recompact_trace = <<>>

\* A Pointable as constructed: no Ptr yet.
InitPointable ==
    /\ ptr_none_ = NullPtr
    /\ ptr_both_ = NullPtr
    /\ ptr_before_ = NullPtr
    /\ ptr_after_ = NullPtr
    /\ created = <<>>
    /\ ptrRet = NullPtr
    /\ ptrCalls = <<>>

Init == InitBuild /\ InitCalls /\ InitCompactIdle /\ InitPointable

\* The host calls GetStackTrace from one thread.
MainCalls == {1}

Next ==
    \E c \in MainCalls :
        \/ GetStackTrace(c)
        \/ UnsafeGetStackTrace(c)
        \/ GetStackTraceReturn(c)
        \/ Mkdtemp(c)
        \/ CopyMaps(c)
        \/ ReadLinkAbsolute(c)
        \/ ResolveExe(c)
        \/ BuildPolicy(c)
        \/ RunAsync(c)
        \/ SendProtoBuf(c)
        \/ RecvProtoBuf(c)
        \/ Kill(c)
        \/ AwaitResult(c)
        \/ SandboxeeRecvSetup(c)
        \/ SandboxeeReadv(c)
        \/ SandboxeeReply(c)
        \/ SandboxeeExit(c)
        \/ LimitFires(c)
        \/ MonitorKill(c)

Spec == Init /\ [][Next]_vars

(***************************************************************************)
(* CompactStackTrace                                                       *)
(***************************************************************************)
\* Mutant: the marker counts the first frame of the run too.
RepeatMarkerOffByOne(seen) ==
    "(previous frame repeated " \o ToString(seen + 1) \o " times)"

\* absl::StrCat("(previous frame repeated ", seen, " times)")
RepeatMarker(seen) ==
    "(previous frame repeated " \o ToString(seen) \o " times)"

\* Mutant: no marker for a frame that is repeated once.
add_repeats_above_one(trace, seen) ==
    IF seen > 1 THEN Append(trace, RepeatMarker(seen)) ELSE trace

\* Mutant: the marker is added for a run of one frame too.
add_repeats_always(trace, seen) == Append(trace, RepeatMarker(seen))

\* auto add_repeats = [&compact_trace](int seen) { if (seen != 0) push_back }
add_repeats(trace, seen) ==
    IF seen # 0 THEN Append(trace, RepeatMarker(seen)) ELSE trace

\* The loop over stack_trace from frame i on: prev is the index of the frame
\* that `prev` points to (0 for nullptr), followed by the last add_repeats.
RECURSIVE CompactLoop(_, _, _, _, _)
CompactLoop(input, i, prev, seen, trace) ==
    IF i > Len(input)
    THEN add_repeats(trace, seen)
    ELSE IF prev # 0 /\ input[i] = input[prev]
         THEN CompactLoop(input, i + 1, prev, seen + 1, trace)
         ELSE CompactLoop(input, i + 1, i, 0,
                          Append(add_repeats(trace, seen), input[i]))

\* Mutant: the trace is returned as it came, nothing is collapsed.
CompactStackTraceUncompacted(input) == input

CompactStackTrace(input) == CompactLoop(input, 1, 0, 0, <<>>)

\* Frame strings of the inputs: two symbols and two strings that read like
\* repeat markers.
Frames == {"a", "b", "(previous frame repeated 1 times)",
           "(previous frame repeated 2 times)"}

RECURSIVE SeqsUpTo(_, _)
SeqsUpTo(S, n) ==
    IF n = 0
    THEN {<<>>}
    ELSE LET shorter == SeqsUpTo(S, n - 1)
         IN  shorter \cup {Append(t, x) : t \in shorter, x \in S}

StackTraces == SeqsUpTo(Frames, MaxLen)

\* compact = CompactStackTrace(stack_trace)
Compact ==
    /\ cpc = "input"
    /\ compact_trace' = CompactStackTrace(stack_trace)
    /\ cpc' = "compacted"
    /\ UNCHANGED <<buildVars, fsVars, callVars, stageVars, shakeVars, sbxVars,
                   stack_trace, recompact_trace, ptrVars>>

\* CompactStackTrace applied to its own output.
Recompact ==
    /\ cpc = "compacted"
    /\ recompact_trace' = CompactStackTrace(compact_trace)
    /\ cpc' = "recompacted"
    /\ UNCHANGED <<buildVars, fsVars, callVars, stageVars, shakeVars, sbxVars,
                   stack_trace, compact_trace, ptrVars>>

InitBuildFixed ==
    /\ IsArm64 = FALSE
    /\ sanitizersIsAny = FALSE
    /\ FLAGS_sandbox_disable_all_stack_traces = FALSE
    /\ FLAGS_sandbox_libunwind_crash_handler = TRUE
    /\ envCOVERAGE = FALSE

InitCompact ==
    /\ InitBuildFixed
    /\ InitCalls
    /\ InitPointable
    /\ cpc = "input"
    /\ stack_trace \in StackTraces
    /\ compact_trace = <<>>
    /\ recompact_trace = <<>>

NextCompact == Compact \/ Recompact

SpecCompact == InitCompact /\ [][NextCompact]_vars

(***************************************************************************)
(* Properties.                                                             *)
(***************************************************************************)
\* LaunchLibunwindSandbox was called and has returned.
Returned(c) == strategy[c] = "nested" /\ pc[c] \in {"G_ret", "done"}

\* The launcher made call `name` with outcome ok.
Did(c, name, ok) == \E i \in 1..Len(events[c]) : events[c][i] = Event(name, ok)
Called(c, name) == Did(c, name, TRUE) \/ Did(c, name, FALSE)

StagingSteps ==
    {"mkdtemp", "CopyFile maps", "ReadLinkAbsolute", "CopyFile exe", "GetPolicy"}

\* C1: once LaunchLibunwindSandbox has returned from a call in which mkdtemp
\* succeeded, the scratch directory does not exist and no file is left under
\* it, whichever return was taken.
C1_ScratchDirectoryRemoved ==
    \A c \in Calls :
        (Returned(c) /\ Did(c, "mkdtemp", TRUE)) =>
            /\ unwind_temp_directory[c] \notin dirs
            /\ \A f \in files : ~IsUnder(f, unwind_temp_directory[c])

\* C1 witness: a successful launch that had copied the executable to the
\* scratch directory has returned.
C1_Witness ==
    \E c \in Calls :
        /\ Returned(c)
        /\ launchRet[c]
        /\ Did(c, "CopyFile exe", TRUE)
        /\ exe_path[c] = JoinPath(unwind_temp_directory[c], "exe")

\* C2: when the sandbox was started and the send or the receive failed, the
\* launcher has, by the time it returns, called Kill and AwaitResult after
\* it, and returns false; it never reaches AwaitResult without the Kill.
C2_KillOnHandshakeFailure ==
    \A c \in Calls :
        (Did(c, "RunAsync", TRUE)
            /\ (Did(c, "SendProtoBuf", FALSE) \/ Did(c, "RecvProtoBuf", FALSE)))
        => /\ pc[c] \in {"L_kill", "L_await", "G_ret", "done"}
           /\ pc[c] # "L_kill" => Called(c, "Kill") /\ killRequested[c]
           /\ Returned(c) =>
                /\ \E i, j \in 1..Len(events[c]) :
                     /\ i < j
                     /\ events[c][i].op = "Kill"
                     /\ events[c][j].op = "AwaitResult"
                /\ launchRet[c] = FALSE

\* C2 witness: the launcher has returned after a failed receive.
C2_Witness ==
    \E c \in Calls :
        /\ Returned(c)
        /\ Did(c, "SendProtoBuf", TRUE)
        /\ Did(c, "RecvProtoBuf", FALSE)

\* C3: LaunchLibunwindSandbox returns true exactly when the send succeeded,
\* the receive succeeded and AwaitResult returned the status OK.
C3_LaunchResultIff ==
    \A c \in Calls :
        Returned(c) =>
            (launchRet[c] <=> /\ Did(c, "SendProtoBuf", TRUE)
                              /\ Did(c, "RecvProtoBuf", TRUE)
                              /\ Called(c, "AwaitResult")
                              /\ sandbox_result[c] = "OK")

\* C3 witness: the handshake completed, the final status is not OK, and the
\* launcher has returned.
C3_Witness ==
    \E c \in Calls :
        /\ Returned(c)
        /\ Did(c, "SendProtoBuf", TRUE)
        /\ Did(c, "RecvProtoBuf", TRUE)
        /\ sandbox_result[c] \in {"TIMEOUT", "SIGNALED", "VIOLATION"}
        /\ ~launchRet[c]

\* The process id the kernel takes from the first argument of
\* process_vm_readv: a pid_t, the low 32 bits.
PidArgument(a) == a.lo
TargetPid(c) == Deref(regs[c]).pid

\* C4 as claimed: process_vm_readv is allowed only when its process-id
\* argument equals the target pid.
C4_Original_OnlyTargetPid ==
    \A c \in Calls :
        (lastReadv[c] # <<>> /\ Deref(lastReadv[c]).verdict = ALLOW)
            => PidArgument(Deref(lastReadv[c]).arg) = TargetPid(c)

\* C4 as amended: process_vm_readv is allowed exactly when the low 32 bits
\* of its process-id argument equal the target pid or equal 1; for every
\* other argument the call is not allowed.
C4_TargetPidOrOne ==
    \A c \in Calls :
        lastReadv[c] # <<>> =>
            (Deref(lastReadv[c]).verdict = ALLOW
                <=> PidArgument(Deref(lastReadv[c]).arg) \in {TargetPid(c), 1})

\* C4 witness: the sandboxee was refused a process_vm_readv of a process
\* that is neither the target nor process 1.
C4_Witness ==
    \E c \in Calls :
        /\ lastReadv[c] # <<>>
        /\ PidArgument(Deref(lastReadv[c]).arg) \notin {TargetPid(c), 1}
        /\ Deref(lastReadv[c]).verdict # ALLOW
        /\ final_status[c] = "VIOLATION"

\* C5: a failed staging step (mkdtemp, the copy of maps, the link
\* resolution, the copy of exe) or a GetPolicy that returns no policy is the
\* last thing the launcher does: no later step runs, no sandbox is started,
\* nothing is sent, and the call has returned false.
C5_NoSandboxAfterStagingFailure ==
    \A c \in Calls :
        \A i \in 1..Len(events[c]) :
            (events[c][i].op \in StagingSteps /\ ~events[c][i].ok) =>
                /\ i = Len(events[c])
                /\ Returned(c)
                /\ launchRet[c] = FALSE
                /\ sbx[c] = "none"
                /\ toSandboxee[c] = <<>>
                /\ ~Called(c, "RunAsync")
                /\ ~Called(c, "SendProtoBuf")

\* C5 witness: the launcher has returned because GetPolicy returned no policy.
C5_Witness ==
    \E c \in Calls :
        /\ Returned(c)
        /\ Did(c, "GetPolicy", FALSE)
        /\ policy[c] = NullPtr

\* A call of GetStackTrace has got past its entry.
Entered(c) == pc[c] # "idle"

\* C6 as claimed: with the disable flag set GetStackTrace returns
\* <<"[Stacktraces disabled]">> whatever the registers and mounts are.
C6_Original_DisabledPlaceholder ==
    \A c \in Calls :
        (Entered(c) /\ FLAGS_sandbox_disable_all_stack_traces) =>
            pc[c] = "done" /\ ret[c] = <<"[Stacktraces disabled]">>

\* C6 as amended: on a host that is not ARM64, with the disable flag set
\* GetStackTrace returns <<"[Stacktraces disabled]">> whatever the registers
\* and mounts are.
C6_DisabledPlaceholderUnlessArm64 ==
    \A c \in Calls :
        (Entered(c) /\ ~IsArm64 /\ FLAGS_sandbox_disable_all_stack_traces) =>
            pc[c] = "done" /\ ret[c] = <<"[Stacktraces disabled]">>

\* C6 witness: a call with the flag set and no registers has returned on a
\* host that is not ARM64.
C6_Witness ==
    \E c \in Calls :
        /\ pc[c] = "done"
        /\ ~IsArm64
        /\ FLAGS_sandbox_disable_all_stack_traces
        /\ regs[c] = NullPtr

\* C7 as claimed: with regs == nullptr GetStackTrace returns
\* <<"[ERROR (noregs)]">>.
C7_Original_NoRegsPlaceholder ==
    \A c \in Calls :
        (Entered(c) /\ regs[c] = NullPtr) =>
            pc[c] = "done" /\ ret[c] = <<"[ERROR (noregs)]">>

\* C7 as amended: on a host that is not ARM64 and with the disable flag
\* unset, GetStackTrace with regs == nullptr returns <<"[ERROR (noregs)]">>.
C7_NoRegsPlaceholderWhenReached ==
    \A c \in Calls :
        (Entered(c) /\ regs[c] = NullPtr /\ ~IsArm64
            /\ ~FLAGS_sandbox_disable_all_stack_traces) =>
            pc[c] = "done" /\ ret[c] = <<"[ERROR (noregs)]">>

\* C7 witness: a call without registers has returned with neither ARM64 nor
\* the disable flag in its way, the sandboxed unwinder being switched off.
C7_Witness ==
    \E c \in Calls :
        /\ pc[c] = "done"
        /\ regs[c] = NullPtr
        /\ ~IsArm64
        /\ ~FLAGS_sandbox_disable_all_stack_traces
        /\ ~FLAGS_sandbox_libunwind_crash_handler

\* C8: when GetStackTrace took the nested sandbox strategy and
\* LaunchLibunwindSandbox returned false, GetStackTrace returns the empty
\* vector and has not run UnsafeGetStackTrace.
C8_EmptyOnLaunchFailure ==
    \A c \in Calls :
        (pc[c] = "done" /\ strategy[c] = "nested" /\ ~launchRet[c]) =>
            ret[c] = <<>> /\ ~unsafeCalled[c]

\* C8 witness: frames were received, the sandbox ended abnormally, and
\* GetStackTrace has returned.
C8_Witness ==
    \E c \in Calls :
        /\ pc[c] = "done"
        /\ strategy[c] = "nested"
        /\ ~launchRet[c]
        /\ Did(c, "RecvProtoBuf", TRUE)
        /\ res[c].stacktrace # <<>>

\* Reading a frame as a repeat marker, "(previous frame repeated N times)":
\* the count N it states, if it is one.
MarkerCounts == 1..(MaxLen + 1)
MarkerText(n) == "(previous frame repeated " \o ToString(n) \o " times)"
IsRepeatMarker(f) == \E n \in MarkerCounts : f = MarkerText(n)
MarkerCount(f) == CHOOSE n \in MarkerCounts : f = MarkerText(n)

\* No frame of the trace reads as a repeat marker.
NoMarkerFrames(t) == \A i \in 1..Len(t) : ~IsRepeatMarker(t[i])

\* C9 as claimed: CompactStackTrace(CompactStackTrace(s)) =
\* CompactStackTrace(s) for every s, frames that equal a repeat marker
\* included.
C9_Original_Idempotent ==
    cpc = "recompacted" => recompact_trace = compact_trace

\* C9 as amended: CompactStackTrace(CompactStackTrace(s)) =
\* CompactStackTrace(s) for every s none of whose frames equals a repeat
\* marker string.
C9_IdempotentWithoutMarkerFrames ==
    (cpc = "recompacted" /\ NoMarkerFrames(stack_trace))
        => recompact_trace = compact_trace

\* C9 witness: a trace of symbols with a run of three equal frames has been
\* compacted twice.
C9_Witness ==
    /\ cpc = "recompacted"
    /\ NoMarkerFrames(stack_trace)
    /\ \E i \in 1..Len(compact_trace) : compact_trace[i] = MarkerText(2)

\* n copies of frame f.
Copies(f, n) == [i \in 1..n |-> f]

\* Expanding the repeat markers of a trace: each marker that follows a frame
\* is replaced by as many copies of that frame as it states.
RECURSIVE ExpandFrom(_, _, _)
ExpandFrom(t, i, out) ==
    IF i > Len(t)
    THEN out
    ELSE IF i > 1 /\ IsRepeatMarker(t[i])
         THEN ExpandFrom(t, i + 1, out \o Copies(t[i - 1], MarkerCount(t[i])))
         ELSE ExpandFrom(t, i + 1, Append(out, t[i]))

ExpandMarkers(t) == ExpandFrom(t, 1, <<>>)

\* C10 as claimed: expanding the repeat markers of CompactStackTrace(s)
\* gives s, for every s.
C10_Original_ExpandRoundTrip ==
    cpc # "input" => ExpandMarkers(compact_trace) = stack_trace

\* C10 as amended: expanding the repeat markers of CompactStackTrace(s)
\* gives s, for every s none of whose frames equals a repeat marker string.
C10_ExpandRoundTripWithoutMarkerFrames ==
    (cpc # "input" /\ NoMarkerFrames(stack_trace))
        => ExpandMarkers(compact_trace) = stack_trace

\* C10 witness: a trace of symbols with two runs, one of them of three
\* frames, has been compacted.
C10_Witness ==
    /\ cpc = "compacted"
    /\ NoMarkerFrames(stack_trace)
    /\ Len(compact_trace) = 3
    /\ Len(stack_trace) = 4
    /\ \E i \in 1..Len(compact_trace) : compact_trace[i] = MarkerText(2)

\* The last index of the maximal run of equal frames that starts at i.
RunEnd(t, i) ==
    CHOOSE j \in i..Len(t) :
        /\ \A k \in i..j : t[k] = t[i]
        /\ j = Len(t) \/ t[j + 1] # t[i]

\* Run by run from index i: the frame once, and the marker of the run's
\* length minus one when the run is longer than one frame.
RECURSIVE RunsCompacted(_, _)
RunsCompacted(t, i) ==
    IF i > Len(t)
    THEN <<>>
    ELSE LET j == RunEnd(t, i)
         IN  <<t[i]>> \o (IF j > i THEN <<MarkerText(j - i)>> ELSE <<>>)
                      \o RunsCompacted(t, j + 1)

NoAdjacentEqual(t) == \A i \in 1..(Len(t) - 1) : t[i] # t[i + 1]

\* C11: CompactStackTrace outputs, run by run in input order, the frame of
\* each maximal run of k equal frames once, followed by one marker
\* "(previous frame repeated k-1 times)" exactly when k > 1; the empty input
\* gives the empty output and an input without adjacent equal frames is
\* returned unchanged.
C11_OutputIsRunByRun ==
    cpc # "input" =>
        /\ compact_trace = RunsCompacted(stack_trace, 1)
        /\ stack_trace = <<>> => compact_trace = <<>>
        /\ NoAdjacentEqual(stack_trace) => compact_trace = stack_trace

\* C11 witness: a trace of a single frame followed by a run of three equal
\* frames has been compacted.
C11_Witness ==
    /\ cpc = "compacted"
    /\ Len(stack_trace) = 4
    /\ stack_trace[1] # stack_trace[2]
    /\ stack_trace[2] = stack_trace[3]
    /\ stack_trace[3] = stack_trace[4]
    /\ compact_trace = <<stack_trace[1], stack_trace[2], MarkerText(2)>>

(***************************************************************************)
(* One call of GetStackTrace under the scheduling the program has: the     *)
(* caller's thread keeps running, the monitor enforces the limits of the   *)
(* executor and acts on Kill().  The sandboxee itself owes nothing.        *)
(***************************************************************************)
\* A step of the thread that called GetStackTrace.
LauncherStep(c) ==
    \/ GetStackTrace(c)
    \/ UnsafeGetStackTrace(c)
    \/ GetStackTraceReturn(c)
    \/ Mkdtemp(c)
    \/ CopyMaps(c)
    \/ ReadLinkAbsolute(c)
    \/ ResolveExe(c)
    \/ BuildPolicy(c)
    \/ RunAsync(c)
    \/ SendProtoBuf(c)
    \/ RecvProtoBuf(c)
    \/ Kill(c)
    \/ AwaitResult(c)

Fairness ==
    \A c \in MainCalls :
        /\ WF_vars(LauncherStep(c))
        /\ WF_vars(LimitFires(c))
        /\ WF_vars(MonitorKill(c))

SpecLive == Init /\ [][Next]_vars /\ Fairness

\* C12: every call of GetStackTrace returns its vector in the end; the
\* launcher does not stay in the send, the receive or AwaitResult for ever,
\* whatever the sandboxee does.
C12_EveryCallReturns ==
    \A c \in MainCalls :
        /\ Entered(c) ~> (pc[c] = "done")
        /\ (pc[c] \in {"L_send", "L_recv", "L_kill", "L_await"}) ~> Returned(c)

\* C12 witness: a call has returned although the sandboxee never read the
\* request nor replied: its time limit ended it.
C12_Witness ==
    \E c \in Calls :
        /\ pc[c] = "done"
        /\ Did(c, "SendProtoBuf", TRUE)
        /\ Did(c, "RecvProtoBuf", FALSE)
        /\ sandboxee[c] = "waiting"
        /\ sandbox_result[c] = "TIMEOUT"

\* The calls the launcher made on the sandbox and its channel, in order.
SandboxOps ==
    {"RunAsync", "SendProtoBuf", "RecvProtoBuf", "Kill", "AwaitResult"}
OpsOf(c) == SelectSeq(events[c], LAMBDA e : e.op \in SandboxOps)

\* The place of each call in the order the launcher makes them in.
OpRank(op) ==
    CASE op = "RunAsync"     -> 1
      [] op = "SendProtoBuf" -> 2
      [] op = "RecvProtoBuf" -> 3
      [] op = "Kill"         -> 4
      [] op = "AwaitResult"  -> 5

\* How many times the launcher made call `name`.
Count(c, name) == Len(SelectSeq(events[c], LAMBDA e : e.op = name))

\* C13: the launcher's calls on the sandbox come in the order RunAsync, send,
\* receive (if attempted), Kill (if issued), AwaitResult: the first is
\* RunAsync, the send follows it, no call comes before one of an earlier
\* place, and AwaitResult starts only when the send and receive are over
\* and is the last call.
C13_CallOrder ==
    \A c \in Calls :
        LET ops == OpsOf(c) IN
        /\ \A i, j \in 1..Len(ops) :
               i < j => OpRank(ops[i].op) < OpRank(ops[j].op)
        /\ ops # <<>> => ops[1].op = "RunAsync"
        /\ Len(ops) >= 2 => ops[2].op = "SendProtoBuf"
        /\ Called(c, "AwaitResult") =>
               /\ Called(c, "SendProtoBuf")
               /\ events[c][Len(events[c])].op = "AwaitResult"
               /\ Returned(c)
        /\ pc[c] = "L_await" =>
               /\ Called(c, "SendProtoBuf")
               /\ success[c] => Did(c, "RecvProtoBuf", TRUE)
               /\ ~success[c] => Called(c, "Kill")

\* C13 witness: a launch has made all five calls: the send succeeded, the
\* receive failed, Kill and AwaitResult followed.
C13_Witness ==
    \E c \in Calls :
        /\ Len(OpsOf(c)) = 5
        /\ OpsOf(c)[3] = Event("RecvProtoBuf", FALSE)
        /\ OpsOf(c)[4].op = "Kill"
        /\ OpsOf(c)[5].op = "AwaitResult"

\* C14: the launcher sends the request once and no more, receives at most
\* once, and attempts the receive only after a send that succeeded.
C14_OneSendAtMostOneReceive ==
    \A c \in Calls :
        /\ Count(c, "SendProtoBuf") <= 1
        /\ Count(c, "RecvProtoBuf") <= 1
        /\ (Called(c, "RunAsync") /\ pc[c] # "L_send") =>
               Count(c, "SendProtoBuf") = 1
        /\ Called(c, "RecvProtoBuf") => Did(c, "SendProtoBuf", TRUE)
        /\ pc[c] = "L_recv" => Did(c, "SendProtoBuf", TRUE)

\* C14 witness: a launch whose send failed has returned without a receive.
C14_Witness ==
    \E c \in Calls :
        /\ Returned(c)
        /\ Did(c, "SendProtoBuf", FALSE)
        /\ Count(c, "SendProtoBuf") = 1
        /\ Count(c, "RecvProtoBuf") = 0

\* Neither strategy has done anything in call c.
NoStrategyRun(c) ==
    /\ ~unsafeCalled[c]
    /\ events[c] = <<>>
    /\ unwind_temp_directory[c] = NullPtr
    /\ sbx[c] = "none"

\* Call c has returned the one-element vector <<text>> without running a
\* strategy.
ReturnedPlaceholder(c, text) ==
    /\ pc[c] = "done"
    /\ ret[c] = <<text>>
    /\ NoStrategyRun(c)

\* C15: GetStackTrace takes the first of its outcomes that matches, in the
\* order unsupported architecture, disable flag, absent registers, strategy
\* selection; the first three return their placeholder and run no strategy:
\* no scratch directory, no sandbox, no direct unwinding.
C15_FirstMatchWins ==
    \A c \in Calls :
        Entered(c) =>
            IF IsArm64
            THEN ReturnedPlaceholder(c, "[Stack traces unavailable]")
            ELSE IF FLAGS_sandbox_disable_all_stack_traces
            THEN ReturnedPlaceholder(c, "[Stacktraces disabled]")
            ELSE IF regs[c] = NullPtr
            THEN ReturnedPlaceholder(c, "[ERROR (noregs)]")
            ELSE strategy[c] \in {"unsafe", "nested"}

\* C15 witness: a call for which all three early outcomes match has
\* returned.
C15_Witness ==
    \E c \in Calls :
        /\ pc[c] = "done"
        /\ IsArm64
        /\ FLAGS_sandbox_disable_all_stack_traces
        /\ regs[c] = NullPtr
        /\ strategy[c] = "unavailable"

\* Call c got to the selection of a strategy.
ReachedSelection(c) ==
    /\ Entered(c)
    /\ ~IsArm64
    /\ ~FLAGS_sandbox_disable_all_stack_traces
    /\ regs[c] # NullPtr

\* C16: at the selection, the direct strategy is run exactly when the
\* prefer-nested-sandbox flag is unset, a sanitizer build is active or
\* COVERAGE is in the environment, and the nested sandbox strategy
\* otherwise; one of the two is run, never both, and the vector returned is
\* that strategy's.
C16_StrategySelection ==
    \A c \in Calls :
        ReachedSelection(c) =>
            /\ strategy[c] =
                   IF \/ ~FLAGS_sandbox_libunwind_crash_handler
                      \/ sanitizersIsAny
                      \/ envCOVERAGE
                   THEN "unsafe" ELSE "nested"
            /\ strategy[c] = "unsafe" =>
                   /\ events[c] = <<>>
                   /\ sbx[c] = "none"
                   /\ res[c].stacktrace = <<>>
                   /\ pc[c] = "done" => unsafeCalled[c] /\ ret[c] \in Traces
            /\ strategy[c] = "nested" =>
                   /\ ~unsafeCalled[c]
                   /\ pc[c] = "done" =>
                          /\ Called(c, "mkdtemp")
                          /\ ret[c] \in {<<>>, res[c].stacktrace}
                          /\ launchRet[c] => ret[c] = res[c].stacktrace

\* C16 witness: with the flag set and COVERAGE in the environment of a build
\* without sanitizers, a call has returned from the direct strategy.
C16_Witness ==
    \E c \in Calls :
        /\ ReachedSelection(c)
        /\ FLAGS_sandbox_libunwind_crash_handler
        /\ envCOVERAGE
        /\ ~sanitizersIsAny
        /\ pc[c] = "done"
        /\ unsafeCalled[c]

\* C17 as stated: whatever the input, the output of CompactStackTrace has no
\* two adjacent equal frames.
C17_Original_NoAdjacentEqual ==
    cpc \in {"compacted", "recompacted"} => NoAdjacentEqual(compact_trace)

\* C17: for every input in which no frame equals a repeat-marker string, the
\* output of CompactStackTrace has no two adjacent equal frames.
C17_NoAdjacentEqualWithoutMarkerFrames ==
    (cpc \in {"compacted", "recompacted"} /\ NoMarkerFrames(stack_trace))
        => NoAdjacentEqual(compact_trace)

\* C17 witness: an input without marker frames that has two adjacent equal
\* frames has been compacted.
C17_Witness ==
    /\ cpc = "compacted"
    /\ NoMarkerFrames(stack_trace)
    /\ ~NoAdjacentEqual(stack_trace)
    /\ Len(compact_trace) > 1

(***************************************************************************)
(* Concurrent attempts: two threads of one process are in GetStackTrace at *)
(* the same time and share /tmp.  The scratch directories are touched by   *)
(* the launcher alone, so of each nested sandbox this specification keeps  *)
(* its monitor, which is what lets RecvProtoBuf and AwaitResult return,    *)
(* and leaves the sandboxee silent.                                        *)
(***************************************************************************)
ConcCalls == {1, 2}

NextConc ==
    \E c \in ConcCalls :
        \/ GetStackTrace(c)
        \/ UnsafeGetStackTrace(c)
        \/ GetStackTraceReturn(c)
        \/ Mkdtemp(c)
        \/ CopyMaps(c)
        \/ ReadLinkAbsolute(c)
        \/ ResolveExe(c)
        \/ BuildPolicy(c)
        \/ RunAsync(c)
        \/ SendProtoBuf(c)
        \/ RecvProtoBuf(c)
        \/ Kill(c)
        \/ AwaitResult(c)
        \/ LimitFires(c)
        \/ MonitorKill(c)

SpecConc == Init /\ [][NextConc]_vars

\* Call c holds a scratch directory: mkdtemp has returned one and the
\* UnwindTempDirectoryCleanup destructor has not run yet.
HoldsDirectory(c) ==
    pc[c] \in {"L_maps", "L_readlink", "L_resolve", "L_policy", "L_run",
               "L_send", "L_recv", "L_kill", "L_await"}

\* The directory call c holds is there, with the files c has copied into it.
DirectoryIntact(c) ==
    /\ unwind_temp_directory[c] \in dirs
    /\ Did(c, "CopyFile maps", TRUE) =>
           JoinPath(unwind_temp_directory[c], "maps") \in files
    /\ Did(c, "CopyFile exe", TRUE) =>
           JoinPath(unwind_temp_directory[c], "exe") \in files

\* A step in which the destructor of call c runs takes away the directory of
\* c with what is under it, and nothing else.
CleanupStep(c) ==
    (HoldsDirectory(c) /\ ~HoldsDirectory(c)') =>
        /\ dirs' = dirs \ {unwind_temp_directory[c]}
        /\ files' = {f \in files : ~IsUnder(f, unwind_temp_directory[c])}

\* C18: two attempts in flight never hold the same scratch directory, and
\* the cleanup of one attempt deletes its own directory only: the directory
\* an attempt holds stays in place, with its files, whatever the others do.
C18_ScratchDirectoryExclusive ==
    /\ [](\A c \in Calls : HoldsDirectory(c) =>
              /\ DirectoryIntact(c)
              /\ \A d \in Calls \ {c} :
                     HoldsDirectory(d) =>
                         unwind_temp_directory[d] # unwind_temp_directory[c])
    /\ [][\A c \in Calls : CleanupStep(c)]_vars

\* C18 witness: one attempt has deleted its directory while the other still
\* holds its own, into which it has copied the maps file.
C18_Witness ==
    \E c \in Calls, d \in Calls :
        /\ c # d
        /\ Did(c, "mkdtemp", TRUE)
        /\ pc[c] \in {"G_ret", "done"}
        /\ HoldsDirectory(d)
        /\ Did(d, "CopyFile maps", TRUE)
        /\ Called(d, "RunAsync")

(***************************************************************************)
(* sapi::v::Pointable: PtrNone, PtrBoth, PtrBefore, PtrAfter               *)
(***************************************************************************)
\* The longest sequence of calls made on the Pointable.
MaxPtrCalls == 4

\* a | b on non-negative integers.
RECURSIVE BitOr(_, _)
BitOr(a, b) ==
    IF a = 0 /\ b = 0 THEN 0
    ELSE (IF a % 2 = 1 \/ b % 2 = 1 THEN 1 ELSE 0)
             + 2 * BitOr(a \div 2, b \div 2)

\* enum SyncType
kSyncNone == 0
kSyncBefore == 1
kSyncAfter == 2
kSyncBoth == BitOr(kSyncBefore, kSyncAfter)

\* virtual Ptr* CreatePtr(SyncType sync_type) = 0: the inheriting class
\* allocates a new Ptr of the given type.  n is the number of Ptr objects
\* allocated before, which tells the new object from them.
CreatePtr(sync_type, n) == PtrTo([id |-> n + 1, sync |-> sync_type])

\* One call of an accessor, as the caller sees it.
PtrCall(mode, p, constructed) ==
    [mode |-> mode, ret |-> p, constructed |-> constructed]

\* The part the four accessors share: the call is recorded and p returned.
ReturnPtr(mode, p, constructed) ==
    /\ Len(ptrCalls) < MaxPtrCalls
    /\ ptrRet' = p
    /\ ptrCalls' = Append(ptrCalls, PtrCall(mode, p, constructed))
    /\ UNCHANGED <<buildVars, fsVars, callVars, stageVars, shakeVars, sbxVars,
                   compactVars>>

\* if (ptr_none_ == nullptr) ptr_none_.reset(CreatePtr(kSyncNone));
\* return ptr_none_.get();
PtrNone ==
    IF ptr_none_ = NullPtr
    THEN /\ ptr_none_' = CreatePtr(kSyncNone, Len(created))
         /\ created' = Append(created, kSyncNone)
         /\ ReturnPtr("PtrNone", ptr_none_', TRUE)
         /\ UNCHANGED <<ptr_both_, ptr_before_, ptr_after_>>
    ELSE /\ ReturnPtr("PtrNone", ptr_none_, FALSE)
         /\ UNCHANGED <<ptr_none_, ptr_both_, ptr_before_, ptr_after_, created>>

\* Mutant: PtrBoth makes a new Ptr on every call.
PtrBothAlwaysCreates ==
    /\ ptr_both_' = CreatePtr(kSyncBoth, Len(created))
    /\ created' = Append(created, kSyncBoth)
    /\ ReturnPtr("PtrBoth", ptr_both_', TRUE)
    /\ UNCHANGED <<ptr_none_, ptr_before_, ptr_after_>>

PtrBoth ==
    IF ptr_both_ = NullPtr
    THEN /\ ptr_both_' = CreatePtr(kSyncBoth, Len(created))
         /\ created' = Append(created, kSyncBoth)
         /\ ReturnPtr("PtrBoth", ptr_both_', TRUE)
         /\ UNCHANGED <<ptr_none_, ptr_before_, ptr_after_>>
    ELSE /\ ReturnPtr("PtrBoth", ptr_both_, FALSE)
         /\ UNCHANGED <<ptr_none_, ptr_both_, ptr_before_, ptr_after_, created>>

PtrBefore ==
    IF ptr_before_ = NullPtr
    THEN /\ ptr_before_' = CreatePtr(kSyncBefore, Len(created))
         /\ created' = Append(created, kSyncBefore)
         /\ ReturnPtr("PtrBefore", ptr_before_', TRUE)
         /\ UNCHANGED <<ptr_none_, ptr_both_, ptr_after_>>
    ELSE /\ ReturnPtr("PtrBefore", ptr_before_, FALSE)
         /\ UNCHANGED <<ptr_none_, ptr_both_, ptr_before_, ptr_after_, created>>

PtrAfter ==
    IF ptr_after_ = NullPtr
    THEN /\ ptr_after_' = CreatePtr(kSyncAfter, Len(created))
         /\ created' = Append(created, kSyncAfter)
         /\ ReturnPtr("PtrAfter", ptr_after_', TRUE)
         /\ UNCHANGED <<ptr_none_, ptr_both_, ptr_before_>>
    ELSE /\ ReturnPtr("PtrAfter", ptr_after_, FALSE)
         /\ UNCHANGED <<ptr_none_, ptr_both_, ptr_before_, ptr_after_, created>>

InitPtr == InitBuildFixed /\ InitCalls /\ InitCompactIdle /\ InitPointable

NextPtr == PtrNone \/ PtrBoth \/ PtrBefore \/ PtrAfter

SpecPtr == InitPtr /\ [][NextPtr]_vars

\* The accessors and, for each, its member and the synchronization mode it
\* stands for.
Accessors == {"PtrNone", "PtrBoth", "PtrBefore", "PtrAfter"}

Member(mode) ==
    CASE mode = "PtrNone" -> ptr_none_
      [] mode = "PtrBoth" -> ptr_both_
      [] mode = "PtrBefore" -> ptr_before_
      [] mode = "PtrAfter" -> ptr_after_

ModeSync(mode) ==
    CASE mode = "PtrNone" -> 0
      [] mode = "PtrBoth" -> 3
      [] mode = "PtrBefore" -> 1
      [] mode = "PtrAfter" -> 2

\* The positions in ptrCalls of the calls for a mode.
CallsFor(mode) == {i \in 1..Len(ptrCalls) : ptrCalls[i].mode = mode}

FirstCallFor(mode) ==
    CHOOSE i \in CallsFor(mode) : \A j \in CallsFor(mode) : i <= j

\* C19: over any sequence of accessor calls, the first call for a mode
\* returns a Ptr it has constructed with CreatePtr of that mode; every later
\* call for the mode returns that same Ptr and constructs nothing; and the
\* Ptr of a mode is absent until the first call for that mode and is the one
\* that call constructed ever after, whatever calls for other modes come in
\* between, so that CreatePtr has run once for each mode called.
C19_PtrMemoizedPerMode ==
    /\ \A mode \in Accessors :
           IF CallsFor(mode) = {}
           THEN Member(mode) = NullPtr
           ELSE LET first == ptrCalls[FirstCallFor(mode)] IN
                /\ first.constructed
                /\ first.ret # NullPtr
                /\ Deref(first.ret).sync = ModeSync(mode)
                /\ Member(mode) = first.ret
                /\ \A i \in CallsFor(mode) \ {FirstCallFor(mode)} :
                       /\ ~ptrCalls[i].constructed
                       /\ ptrCalls[i].ret = first.ret
    /\ \A m1 \in Accessors, m2 \in Accessors :
           (m1 # m2 /\ Member(m1) # NullPtr) => Member(m1) # Member(m2)
    /\ Len(created) = Cardinality({mode \in Accessors : CallsFor(mode) # {}})
    /\ ptrCalls # <<>> => ptrRet = ptrCalls[Len(ptrCalls)].ret

\* C19 witness: PtrBoth, then another accessor, then PtrBoth again.
C19_Witness ==
    /\ Len(ptrCalls) >= 3
    /\ ptrCalls[1].mode = "PtrBoth"
    /\ ptrCalls[2].mode = "PtrBefore"
    /\ ptrCalls[3].mode = "PtrBoth"
    /\ ptrRet = ptr_both_

\* C20: the nested sandbox is never running once LaunchLibunwindSandbox has
\* returned, and the scratch directory is deleted only after AwaitResult has
\* collected the final status: a sandbox that was started and not yet
\* awaited has its scratch directory, and a call that started one returns
\* with it terminated and awaited.
C20_SandboxAwaitedBeforeCleanup ==
    \A c \in Calls :
        /\ sbx[c] = "running" =>
               /\ ~Returned(c)
               /\ unwind_temp_directory[c] \in dirs
        /\ (Called(c, "RunAsync") /\ ~Called(c, "AwaitResult")) =>
               /\ ~Returned(c)
               /\ unwind_temp_directory[c] \in dirs
               /\ JoinPath(unwind_temp_directory[c], "maps") \in files
        /\ (Called(c, "RunAsync") /\ Returned(c)) =>
               /\ sbx[c] = "terminated"
               /\ Called(c, "AwaitResult")
               /\ sandbox_result[c] = final_status[c]
               /\ unwind_temp_directory[c] \notin dirs

\* C20 witness: a call whose send failed while the sandboxee was running has
\* returned, after the monitor ended the sandboxee on Kill.
C20_Witness ==
    \E c \in Calls :
        /\ Returned(c)
        /\ Did(c, "SendProtoBuf", FALSE)
        /\ Called(c, "Kill")
        /\ sandbox_result[c] = "EXTERNAL_KILL"
        /\ sbx[c] = "terminated"

====
